---- MODULE Spec2Model ----
(***************************************************************************)
(* A model of lerobot/cameras/utils.py:                                    *)
(*   make_cameras_from_configs  (the camera factory, one loop iteration    *)
(*                               per action),                              *)
(*   get_cv2_rotation           (a pure function),                         *)
(*   get_cv2_backends           (a pure function of the platform, the      *)
(*                               environment and the cv2 build).           *)
(* Strings that the code takes apart (the LEROBOT_OPENCV_BACKENDS          *)
(* override) are sequences of one-character strings; a mapping (a Python   *)
(* dict, which keeps insertion order) is a sequence of <<key, value>>      *)
(* pairs with no key repeated; an optional value is <<>> or <<v>>.         *)
(***************************************************************************)
EXTENDS Integers, Sequences, FiniteSets, TLC

VARIABLES
    \* ---- make_cameras_from_configs ----
    camera_configs, \* the argument: a sequence of [key, cfg], keys distinct
    idx,            \* position of the for loop in camera_configs.items()
    cameras,        \* the local dict being filled
    pc,             \* "loop" | "returned" | "raised" ("cv2": no factory call)
    ret,            \* <<>> or <<the mapping returned to the caller>>
    error,          \* <<>> or <<the exception that left the call>>
    inner,          \* <<>> or <<the exception a callee raised>>
    calls,          \* log of the constructor invocations, in order
    imported,       \* log of the driver import statements executed
    \* ---- get_cv2_rotation / get_cv2_backends ----
    platform_system, \* platform.system()
    override,        \* os.environ.get("LEROBOT_OPENCV_BACKENDS"): <<>> or <<chars>>
    cv2_attrs,       \* the optional CAP_* attributes this cv2 build defines
    rotation,        \* <<>> or <<the argument of the last get_cv2_rotation call>>
    rotation_ret,    \* <<>> (None, or not called) or <<its int result>>
    backends_ret     \* <<>> (not called) or <<the list get_cv2_backends returned>>

factory_vars == <<camera_configs, idx, cameras, pc, ret, error, inner, calls, imported>>
cv2_vars == <<platform_system, override, cv2_attrs, rotation, rotation_ret, backends_ret>>
vars == <<camera_configs, idx, cameras, pc, ret, error, inner, calls, imported,
          platform_system, override, cv2_attrs, rotation, rotation_ret, backends_ret>>

Range(s) == {s[i] : i \in DOMAIN s}

(***************************************************************************)
(* Bounds of the model.                                                    *)
(***************************************************************************)
MaxCameras == 2

KeyNames == <<"front", "wrist", "top", "side", "rear">>
Keys == {KeyNames[i] : i \in 1..(IF MaxCameras < Len(KeyNames) THEN MaxCameras ELSE Len(KeyNames))}

\* The type tags tried: the three the code names, one extension type, and a
\* tag that differs from a known one by case only.
Types == {"opencv", "intelrealsense", "reachy2_camera", "zmq", "OpenCV"}
CfgIds == {0, 1}
Configs == [type : Types, index_or_path : CfgIds]

(***************************************************************************)
(* make_cameras_from_configs                                               *)
(***************************************************************************)

\* The if/elif chain on cfg.type: the branch taken.
DispatchGenericReachy(type) ==
    IF type = "opencv" THEN "opencv"
    ELSE IF type = "intelrealsense" THEN "intelrealsense"
    ELSE "generic"

Dispatch(type) ==
    IF type = "opencv" THEN "opencv"
    ELSE IF type = "intelrealsense" THEN "intelrealsense"
    ELSE IF type = "reachy2_camera" THEN "reachy2_camera"
    ELSE "generic"

\* What a branch imports before it constructs (nothing on the generic path).
ImportsForEager(branch) ==
    <<".opencv", ".realsense.camera_realsense", ".reachy2_camera.reachy2_camera">>

ImportsFor(branch) ==
    IF branch = "opencv" THEN <<".opencv">>
    ELSE IF branch = "intelrealsense" THEN <<".realsense.camera_realsense">>
    ELSE IF branch = "reachy2_camera" THEN <<".reachy2_camera.reachy2_camera">>
    ELSE <<>>

\* The callable a branch invokes with cfg.
Constructor(branch) ==
    IF branch = "opencv" THEN "OpenCVCamera"
    ELSE IF branch = "intelrealsense" THEN "RealSenseCamera"
    ELSE IF branch = "reachy2_camera" THEN "Reachy2Camera"
    ELSE "make_device_from_device_class"

\* str(cfg), as the f-string formats it.
StrCfg(cfg) ==
    "CameraConfig(type=" \o cfg.type \o ", index_or_path=" \o ToString(cfg.index_or_path) \o ")"

\* Exception classes a callee may raise. KeyboardInterrupt derives from
\* BaseException only, the others from Exception.
ExceptionTypes == {"RuntimeError", "ValueError", "ImportError", "KeyboardInterrupt"}
IsException(type) == type \in {"RuntimeError", "ValueError", "ImportError"}

\* The exception object a callee raises.
Raised(type, origin, key) ==
    [type |-> type, msg |-> <<origin \o " failed for " \o key>>, cause |-> <<>>]

\* raise ValueError(f"Error creating camera {key} with config {cfg}: {e}") from e
WrapNoCause(key, cfg, e) ==
    [type |-> "ValueError",
     msg |-> <<"Error creating camera ", key, " with config ", StrCfg(cfg), ": ">> \o e.msg,
     cause |-> <<>>]

Wrap(key, cfg, e) ==
    [type |-> "ValueError",
     msg |-> <<"Error creating camera ", key, " with config ", StrCfg(cfg), ": ">> \o e.msg,
     cause |-> <<e>>]

\* The exception that leaves the call when a callee of `branch` raised e:
\* only the generic branch has a try, and `except Exception` does not catch
\* what derives from BaseException alone.
LeavesAsAlwaysWrapped(branch, key, cfg, e) ==
    IF IsException(e.type) THEN Wrap(key, cfg, e) ELSE e

LeavesAs(branch, key, cfg, e) ==
    IF branch = "generic" /\ IsException(e.type) THEN Wrap(key, cfg, e) ELSE e

\* cameras[key] = value on an insertion-ordered dict.
DictSetFront(d, key, value) ==
    <<<<key, value>>>> \o d

DictSet(d, key, value) ==
    IF \E i \in DOMAIN d : d[i][1] = key
    THEN [i \in DOMAIN d |-> IF d[i][1] = key THEN <<key, value>> ELSE d[i]]
    ELSE Append(d, <<key, value>>)

\* The object constructor(cfg) returns.
Handle(constructor, cfg) == [made_by |-> constructor, cfg |-> cfg]

\* An exception leaves the loop body: the call ends, nothing is returned.
AbortSkipEntry(e) ==
    /\ error' = <<e>>
    /\ pc' = "loop"
    /\ idx' = idx + 1
    /\ UNCHANGED <<cameras, ret>>

Abort(e) ==
    /\ error' = <<e>>
    /\ pc' = "raised"
    /\ UNCHANGED <<idx, cameras, ret>>

\* One iteration of the for loop through `branch`: the import (which may
\* raise ImportError), then the constructor call (which may raise).
Iteration(branch) ==
    LET key == camera_configs[idx].key
        cfg == camera_configs[idx].cfg
        mods == ImportsFor(branch)
        ctor == Constructor(branch)
    IN  /\ pc = "loop"
        /\ idx <= Len(camera_configs)
        /\ Dispatch(cfg.type) = branch
        /\ imported' = imported \o mods
        /\ \E import_ok \in (IF mods = <<>> THEN {TRUE} ELSE BOOLEAN),
              outcome \in {"ok"} \cup ExceptionTypes :
              IF ~import_ok
              THEN LET e == Raised("ImportError", "import", key)
                   IN  /\ outcome = "ok"
                       /\ inner' = <<e>>
                       /\ calls' = calls
                       /\ Abort(LeavesAs(branch, key, cfg, e))
              ELSE /\ calls' = Append(calls, [constructor |-> ctor, key |-> key, cfg |-> cfg])
                   /\ IF outcome = "ok"
                      THEN /\ cameras' = DictSet(cameras, key, Handle(ctor, cfg))
                           /\ idx' = idx + 1
                           /\ UNCHANGED <<pc, ret, error, inner>>
                      ELSE LET e == Raised(outcome, ctor, key)
                           IN  /\ inner' = <<e>>
                               /\ Abort(LeavesAs(branch, key, cfg, e))
        /\ UNCHANGED camera_configs
        /\ UNCHANGED cv2_vars

IterOpenCV == Iteration("opencv")
IterRealSense == Iteration("intelrealsense")
IterReachy2 == Iteration("reachy2_camera")
IterGeneric == Iteration("generic")

\* return cameras
Return ==
    /\ pc = "loop"
    /\ idx > Len(camera_configs)
    /\ pc' = "returned"
    /\ ret' = <<cameras>>
    /\ UNCHANGED <<camera_configs, idx, cameras, error, inner, calls, imported>>
    /\ UNCHANGED cv2_vars

DistinctKeys(s) == \A i, j \in DOMAIN s : s[i].key = s[j].key => i = j

InputMappings ==
    {s \in UNION {[1..n -> [key : Keys, cfg : Configs]] : n \in 0..MaxCameras} : DistinctKeys(s)}

(***************************************************************************)
(* get_cv2_rotation                                                        *)
(***************************************************************************)
\* cv2's rotation codes.
ROTATE_90_CLOCKWISE == 0
ROTATE_180 == 1
ROTATE_90_COUNTERCLOCKWISE == 2

\* The members of the enumeration Cv2Rotation.
Cv2Rotation == {"NO_ROTATION", "ROTATE_90", "ROTATE_180", "ROTATE_270"}

\* The result is <<>> for None and <<code>> for an int.
get_cv2_rotation_swapped(r) ==
    IF r = "ROTATE_90" THEN <<ROTATE_90_COUNTERCLOCKWISE>>
    ELSE IF r = "ROTATE_180" THEN <<ROTATE_180>>
    ELSE IF r = "ROTATE_270" THEN <<ROTATE_90_CLOCKWISE>>
    ELSE <<>>

get_cv2_rotation(r) ==
    IF r = "ROTATE_90" THEN <<ROTATE_90_CLOCKWISE>>
    ELSE IF r = "ROTATE_180" THEN <<ROTATE_180>>
    ELSE IF r = "ROTATE_270" THEN <<ROTATE_90_COUNTERCLOCKWISE>>
    ELSE <<>>

(***************************************************************************)
(* get_cv2_backends                                                        *)
(***************************************************************************)
\* cv2's capture backend ids.
CAP_ANY == 0
CAP_V4L == 200
CAP_DSHOW == 700
CAP_AVFOUNDATION == 1200
CAP_MSMF == 1400

Platforms == {"Windows", "Linux", "Darwin"}
OptionalAttrs == {"CAP_AVFOUNDATION", "CAP_V4L"}

default_order_msmf_first(system) ==
    IF system = "Windows" THEN <<CAP_MSMF, CAP_DSHOW, CAP_ANY>> ELSE <<CAP_ANY>>

default_order(system) ==
    IF system = "Windows" THEN <<CAP_DSHOW, CAP_MSMF, CAP_ANY>> ELSE <<CAP_ANY>>

\* getattr(cv2, name, default)
GetAttr(attrs, name, value, default) == IF name \in attrs THEN value ELSE default

token_map(attrs) ==
    [t \in {"ANY", "DSHOW", "MSMF", "AVFOUNDATION", "V4L"} |->
        CASE t = "ANY" -> CAP_ANY
          [] t = "DSHOW" -> CAP_DSHOW
          [] t = "MSMF" -> CAP_MSMF
          [] t = "AVFOUNDATION" -> GetAttr(attrs, "CAP_AVFOUNDATION", CAP_AVFOUNDATION, CAP_ANY)
          [] t = "V4L" -> GetAttr(attrs, "CAP_V4L", CAP_V4L, CAP_ANY)]

\* str.split(sep) on a sequence of characters: the pieces between the
\* separators, empty pieces kept.
RECURSIVE SplitFrom(_, _, _)
SplitFrom(chars, sep, piece) ==
    IF chars = <<>> THEN <<piece>>
    ELSE IF Head(chars) = sep
         THEN <<piece>> \o SplitFrom(Tail(chars), sep, <<>>)
         ELSE SplitFrom(Tail(chars), sep, Append(piece, Head(chars)))

split(chars, sep) == SplitFrom(chars, sep, <<>>)

\* str.strip(): leading and trailing whitespace removed.
Whitespace == {" ", "\t", "\n", "\r"}

RECURSIVE lstrip(_)
lstrip(chars) ==
    IF chars # <<>> /\ Head(chars) \in Whitespace THEN lstrip(Tail(chars)) ELSE chars

RECURSIVE rstrip(_)
rstrip(chars) ==
    IF chars # <<>> /\ chars[Len(chars)] \in Whitespace
    THEN rstrip(SubSeq(chars, 1, Len(chars) - 1))
    ELSE chars

strip(chars) == rstrip(lstrip(chars))

\* str.upper() on the ASCII letters.
LowerCase == <<"a", "b", "c", "d", "e", "f", "g", "h", "i", "j", "k", "l", "m",
               "n", "o", "p", "q", "r", "s", "t", "u", "v", "w", "x", "y", "z">>
UpperCase == <<"A", "B", "C", "D", "E", "F", "G", "H", "I", "J", "K", "L", "M",
               "N", "O", "P", "Q", "R", "S", "T", "U", "V", "W", "X", "Y", "Z">>

UpperChar(c) ==
    IF \E i \in DOMAIN LowerCase : LowerCase[i] = c
    THEN UpperCase[CHOOSE i \in DOMAIN LowerCase : LowerCase[i] = c]
    ELSE c

upper(chars) == [i \in DOMAIN chars |-> UpperChar(chars[i])]

\* The string a sequence of characters spells.
RECURSIVE Str(_)
Str(chars) == IF chars = <<>> THEN "" ELSE Head(chars) \o Str(Tail(chars))

\* token = raw_token.strip().upper()
Token(raw_token) == Str(upper(strip(raw_token)))

\* if token in token_map and token_map[token] not in backends
ShouldAppendNoDedup(token, map, backends) ==
    token \in DOMAIN map

ShouldAppend(token, map, backends) ==
    token \in DOMAIN map /\ map[token] \notin Range(backends)

\* for raw_token in override.split(","): ...
RECURSIVE ParseLoop(_, _, _)
ParseLoop(raw_tokens, map, backends) ==
    IF raw_tokens = <<>> THEN backends
    ELSE LET token == Token(Head(raw_tokens))
         IN  ParseLoop(Tail(raw_tokens), map,
                       IF ShouldAppend(token, map, backends)
                       THEN Append(backends, map[token])
                       ELSE backends)

\* backends or default_order
OrDefaultNever(backends, default) == backends

OrDefault(backends, default) == IF backends = <<>> THEN default ELSE backends

\* env is <<>> when the variable is unset (None) and <<chars>> when it is set.
get_cv2_backends(system, env, attrs) ==
    IF env = <<>> \/ env[1] = <<>>
    THEN default_order(system)
    ELSE OrDefault(ParseLoop(split(env[1], ","), token_map(attrs), <<>>),
                   default_order(system))

(***************************************************************************)
(* The values of LEROBOT_OPENCV_BACKENDS tried: unset, every comma-joined  *)
(* list of at most MaxTokens raw tokens, and the documented examples.      *)
(***************************************************************************)
MaxTokens == 3

RawTokens ==
    { <<"d", "s", "h", "o", "w">>,
      <<" ", "A", "N", "Y">>,
      <<" ", "b", "o", "g", "u", "s">>,
      <<"M", "s", "m", "f", " ">>,
      <<"\t", "v", "4", "l">>,
      <<"A", "V", "F", "O", "U", "N", "D", "A", "T", "I", "O", "N">>,
      <<>>,
      <<" ">> }

RECURSIVE JoinComma(_)
JoinComma(pieces) ==
    IF pieces = <<>> THEN <<>>
    ELSE IF Len(pieces) = 1 THEN pieces[1]
    ELSE pieces[1] \o <<",">> \o JoinComma(Tail(pieces))

\* "dshow, ANY, bogus, dshow"
ExampleDedup ==
    JoinComma(<< <<"d", "s", "h", "o", "w">>, <<" ", "A", "N", "Y">>,
                 <<" ", "b", "o", "g", "u", "s">>, <<" ", "d", "s", "h", "o", "w">> >>)
\* "bogus,other"
ExampleUnknown ==
    JoinComma(<< <<"b", "o", "g", "u", "s">>, <<"o", "t", "h", "e", "r">> >>)
\* "DSHOW,MSMF,ANY"
ExampleDocstring ==
    JoinComma(<< <<"D", "S", "H", "O", "W">>, <<"M", "S", "M", "F">>, <<"A", "N", "Y">> >>)

Overrides ==
    {<<>>}
    \cup {<<JoinComma(p)>> : p \in UNION {[1..n -> RawTokens] : n \in 1..MaxTokens}}
    \cup {<<ExampleDedup>>, <<ExampleUnknown>>, <<ExampleDocstring>>}

\* A call of get_cv2_rotation / get_cv2_backends in the environment of Init.
CallGetCv2Rotation ==
    /\ pc = "cv2"
    /\ rotation = <<>> /\ backends_ret = <<>>
    /\ \E r \in Cv2Rotation :
          /\ rotation' = <<r>>
          /\ rotation_ret' = get_cv2_rotation(r)
    /\ UNCHANGED <<platform_system, override, cv2_attrs, backends_ret>>
    /\ UNCHANGED factory_vars

CallGetCv2Backends ==
    /\ pc = "cv2"
    /\ rotation = <<>> /\ backends_ret = <<>>
    /\ backends_ret' = <<get_cv2_backends(platform_system, override, cv2_attrs)>>
    /\ UNCHANGED <<platform_system, override, cv2_attrs, rotation, rotation_ret>>
    /\ UNCHANGED factory_vars

(***************************************************************************)
(* The specifications: Spec is one call of make_cameras_from_configs on    *)
(* any input mapping; SpecCv2 is one call of get_cv2_rotation or of        *)
(* get_cv2_backends in any environment.                                    *)
(***************************************************************************)
Cv2Idle ==
    /\ platform_system = "Linux"
    /\ override = <<>>
    /\ cv2_attrs = {}
    /\ rotation = <<>>
    /\ rotation_ret = <<>>
    /\ backends_ret = <<>>

Init ==
    /\ camera_configs \in InputMappings
    /\ idx = 1
    /\ cameras = <<>>
    /\ pc = "loop"
    /\ ret = <<>>
    /\ error = <<>>
    /\ inner = <<>>
    /\ calls = <<>>
    /\ imported = <<>>
    /\ Cv2Idle

Next == IterOpenCV \/ IterRealSense \/ IterReachy2 \/ IterGeneric \/ Return

Spec == Init /\ [][Next]_vars

InitCv2 ==
    /\ camera_configs = <<>>
    /\ idx = 1
    /\ cameras = <<>>
    /\ pc = "cv2"
    /\ ret = <<>>
    /\ error = <<>>
    /\ inner = <<>>
    /\ calls = <<>>
    /\ imported = <<>>
    /\ platform_system \in Platforms
    /\ override \in Overrides
    /\ cv2_attrs \in SUBSET OptionalAttrs
    /\ rotation = <<>>
    /\ rotation_ret = <<>>
    /\ backends_ret = <<>>

NextCv2 == CallGetCv2Rotation \/ CallGetCv2Backends

SpecCv2 == InitCv2 /\ [][NextCv2]_vars

(***************************************************************************)
(* Properties of make_cameras_from_configs, checked under Spec.            *)
(***************************************************************************)
KnownTags == {"opencv", "intelrealsense", "reachy2_camera"}
Contains(msg, part) == \E i \in DOMAIN msg : msg[i] = part

\* C1: the call is fail-fast and all-or-nothing. The constructors are invoked
\* one at a time in the order of the input mapping (the i-th invocation is for
\* the i-th entry); once a callee has raised, the call has ended with an
\* error, nothing (not even a partial mapping) is returned, the failing entry
\* is the one the loop stands at, and no constructor was invoked for an entry
\* after it.
C1_FailFastAllOrNothing ==
    /\ \A i \in DOMAIN calls :
          /\ i <= Len(camera_configs)
          /\ calls[i].key = camera_configs[i].key
          /\ calls[i].cfg = camera_configs[i].cfg
    /\ (inner # <<>> \/ error # <<>>) =>
          /\ pc = "raised"
          /\ error # <<>> /\ inner # <<>>
          /\ ret = <<>>
          /\ idx <= Len(camera_configs)
          /\ Len(calls) \in {idx - 1, idx}
          /\ Len(calls) = idx =>
                inner[1].msg = <<calls[idx].constructor \o " failed for " \o camera_configs[idx].key>>
          /\ Len(calls) = idx - 1 =>
                inner[1].msg = <<"import failed for " \o camera_configs[idx].key>>
    /\ pc = "returned" => error = <<>>

\* The first of two entries failed in its constructor: the second was never
\* constructed and nothing was returned.
C1_Witness ==
    /\ pc = "raised"
    /\ Len(camera_configs) = 2
    /\ idx = 1
    /\ Len(calls) = 1
    /\ ret = <<>>

\* C2: when the generic construction path of an entry with an unknown tag
\* raises an error (an Exception), the call raises one ValueError whose
\* message contains the entry's logical name and str(cfg) and whose cause is
\* the original error.
C2_GenericFailureWrapped ==
    (/\ pc = "raised"
     /\ camera_configs[idx].cfg.type \notin KnownTags
     /\ IsException(inner[1].type)) =>
        /\ error[1].type = "ValueError"
        /\ Contains(error[1].msg, camera_configs[idx].key)
        /\ Contains(error[1].msg, StrCfg(camera_configs[idx].cfg))
        /\ error[1].cause = inner
        /\ error # inner

\* The generic path raised a ValueError of its own for the second entry.
C2_Witness ==
    /\ pc = "raised"
    /\ idx = 2
    /\ camera_configs[idx].cfg.type = "zmq"
    /\ inner[1].type = "ValueError"
    /\ calls[idx].constructor = "make_device_from_device_class"
    /\ error[1].cause = inner

\* C3: for an entry with a known tag, an error raised by the dedicated driver
\* constructor leaves the call as that same error: not wrapped, no cause
\* attached, no message of the wrapping error.
C3_KnownFailureUnwrapped ==
    (/\ pc = "raised"
     /\ camera_configs[idx].cfg.type \in KnownTags
     /\ Len(calls) = idx) =>
        /\ error = inner
        /\ error[1].cause = <<>>
        /\ ~Contains(error[1].msg, "Error creating camera ")

\* A known driver's constructor raised a ValueError, the class the wrapper
\* would use.
C3_Witness ==
    /\ pc = "raised"
    /\ camera_configs[idx].cfg.type = "intelrealsense"
    /\ Len(calls) = idx
    /\ calls[idx].constructor = "RealSenseCamera"
    /\ inner[1].type = "ValueError"

\* The constructor the claim names for a type tag.
C4_Expected(type) ==
    CASE type = "opencv" -> "OpenCVCamera"
      [] type = "intelrealsense" -> "RealSenseCamera"
      [] type = "reachy2_camera" -> "Reachy2Camera"
      [] OTHER -> "make_device_from_device_class"

\* C4: the construction strategy depends on the type tag alone: every
\* constructor invocation, and every handle stored, is the dedicated driver's
\* for a known tag, and make_device_from_device_class is invoked if and only
\* if the tag is none of the three known ones.
C4_DispatchOnTag ==
    /\ \A i \in DOMAIN calls :
          /\ calls[i].constructor = C4_Expected(calls[i].cfg.type)
          /\ (calls[i].constructor = "make_device_from_device_class")
                <=> (calls[i].cfg.type \notin KnownTags)
    /\ \A i \in DOMAIN cameras :
          cameras[i][2].made_by = C4_Expected(cameras[i][2].cfg.type)
    /\ \A i \in 1..Len(camera_configs) :
          (i < idx \/ (pc = "raised" /\ i = idx /\ Len(calls) = idx)) =>
              calls[i].constructor = C4_Expected(camera_configs[i].cfg.type)

\* A Reachy2 entry and an entry whose tag differs from "opencv" by case only
\* were both constructed.
C4_Witness ==
    /\ pc = "returned"
    /\ Len(calls) = 2
    /\ calls[1].cfg.type = "reachy2_camera" /\ calls[1].constructor = "Reachy2Camera"
    /\ calls[2].cfg.type = "OpenCV" /\ calls[2].constructor = "make_device_from_device_class"

\* C5: when every constructor succeeds, the mapping returned has exactly the
\* input's names in the input's order, each bound to the handle constructed
\* from its own configuration, with exactly one constructor call per entry
\* (so the empty input gives the empty mapping).
C5_SameNamesSameOrder ==
    pc = "returned" =>
        /\ Len(ret) = 1
        /\ Len(ret[1]) = Len(camera_configs)
        /\ \A i \in DOMAIN camera_configs :
              /\ ret[1][i][1] = camera_configs[i].key
              /\ ret[1][i][2].cfg = camera_configs[i].cfg
        /\ Len(calls) = Len(camera_configs)
        /\ \A i \in DOMAIN camera_configs :
              /\ calls[i].key = camera_configs[i].key
              /\ calls[i].cfg = camera_configs[i].cfg

\* Two entries with different configurations were resolved.
C5_Witness ==
    /\ pc = "returned"
    /\ Len(camera_configs) = 2
    /\ camera_configs[1].cfg # camera_configs[2].cfg
    /\ Len(ret[1]) = 2
    /\ ret[1][2][2].cfg = camera_configs[2].cfg

\* The type tag whose branch imports a driver module.
C6_TagOf(module) ==
    CASE module = ".opencv" -> "opencv"
      [] module = ".realsense.camera_realsense" -> "intelrealsense"
      [] module = ".reachy2_camera.reachy2_camera" -> "reachy2_camera"

\* C6: drivers are loaded lazily: every driver import executed during the
\* call was executed for an entry the loop has reached that carries that
\* driver's tag, so a driver none of the processed entries names is not
\* loaded, and entries after a failing entry load nothing.
C6_LazyImports ==
    \A k \in DOMAIN imported :
        \E i \in DOMAIN camera_configs :
            /\ IF pc = "raised" THEN i <= idx ELSE i < idx
            /\ camera_configs[i].cfg.type = C6_TagOf(imported[k])

\* The OpenCV entry failed; the RealSense entry behind it loaded nothing.
C6_Witness ==
    /\ pc = "raised"
    /\ idx = 1
    /\ Len(camera_configs) = 2
    /\ camera_configs[1].cfg.type = "opencv"
    /\ camera_configs[2].cfg.type = "intelrealsense"
    /\ imported = <<".opencv">>

(***************************************************************************)
(* Properties of get_cv2_rotation and get_cv2_backends, checked under      *)
(* SpecCv2.                                                                *)
(***************************************************************************)

\* C7: get_cv2_rotation maps NO_ROTATION to None and ROTATE_90, ROTATE_180,
\* ROTATE_270 to cv2's codes for clockwise 90, 180 and counter-clockwise 90,
\* three pairwise-distinct non-negative integers; every member of the
\* enumeration has a result.
C7_RotationCodes ==
    /\ rotation # <<>> =>
          /\ rotation[1] = "NO_ROTATION" => rotation_ret = <<>>
          /\ rotation[1] = "ROTATE_90" => rotation_ret = <<ROTATE_90_CLOCKWISE>>
          /\ rotation[1] = "ROTATE_180" => rotation_ret = <<ROTATE_180>>
          /\ rotation[1] = "ROTATE_270" => rotation_ret = <<ROTATE_90_COUNTERCLOCKWISE>>
          /\ rotation[1] # "NO_ROTATION" =>
                /\ rotation_ret[1] \in Nat
                /\ \A r \in Cv2Rotation \ {rotation[1]} : get_cv2_rotation(r) # rotation_ret
    /\ Cardinality({ROTATE_90_CLOCKWISE, ROTATE_180, ROTATE_90_COUNTERCLOCKWISE}) = 3
    /\ (pc = "cv2" /\ rotation = <<>> /\ backends_ret = <<>>) =>
          \A r \in Cv2Rotation : Len(get_cv2_rotation(r)) \in {0, 1}

\* ROTATE_270 gave the counter-clockwise code.
C7_Witness ==
    /\ rotation = <<"ROTATE_270">>
    /\ rotation_ret = <<ROTATE_90_COUNTERCLOCKWISE>>

\* The override's tokens as the claims describe them: the pieces between the
\* commas, trimmed and upper-cased; the recognized ones are those in the table.
OverrideSet == override # <<>> /\ override[1] # <<>>
OverrideTokens == LET raw == split(override[1], ",") IN [k \in DOMAIN raw |-> Token(raw[k])]
\* The numeric ids of the tokens, in order: <<>> for a token not in the table.
OverrideIds ==
    LET tokens == OverrideTokens
        table == token_map(cv2_attrs)
    IN  [k \in DOMAIN tokens |-> IF tokens[k] \in DOMAIN table THEN <<table[tokens[k]]>> ELSE <<>>]
RecognizedIds(ids) == {ids[k][1] : k \in {j \in DOMAIN ids : ids[j] # <<>>}}
FirstAt(ids, id) == CHOOSE k \in DOMAIN ids : ids[k] = <<id>> /\ \A j \in 1..(k - 1) : ids[j] # <<id>>

\* C8: with a non-empty override in which some token is recognized, the
\* result lists the ids of the recognized tokens and nothing else, no id
\* twice, in the order of each id's first occurrence in the override (two
\* spellings with one id give one entry); the comma-separated pieces are the
\* override's own; and on Linux "dshow, ANY, bogus, dshow" gives
\* [CAP_DSHOW, CAP_ANY].
C8_OverrideOrderDedup ==
    (backends_ret # <<>> /\ OverrideSet) =>
        LET r == backends_ret[1]
            ids == OverrideIds
        IN  /\ JoinComma(split(override[1], ",")) = override[1]
            /\ RecognizedIds(ids) # {} =>
                  /\ \A i, j \in DOMAIN r : r[i] = r[j] => i = j
                  /\ Range(r) = RecognizedIds(ids)
                  /\ \A i, j \in DOMAIN r : i < j => FirstAt(ids, r[i]) < FirstAt(ids, r[j])
            /\ (override[1] = ExampleDedup /\ platform_system = "Linux") =>
                  r = <<CAP_DSHOW, CAP_ANY>>

\* The documented example on Linux.
C8_Witness ==
    /\ override = <<ExampleDedup>>
    /\ platform_system = "Linux"
    /\ backends_ret = << <<CAP_DSHOW, CAP_ANY>> >>

\* C9: with the override unset or the empty string, the result is the
\* platform default: [CAP_DSHOW, CAP_MSMF, CAP_ANY] on Windows, [CAP_ANY] on
\* every other platform.
C9_PlatformDefault ==
    (backends_ret # <<>> /\ ~OverrideSet) =>
        backends_ret[1] = IF platform_system = "Windows"
                          THEN <<CAP_DSHOW, CAP_MSMF, CAP_ANY>>
                          ELSE <<CAP_ANY>>

\* Windows with the override unset.
C9_Witness ==
    /\ platform_system = "Windows"
    /\ override = <<>>
    /\ backends_ret = << <<CAP_DSHOW, CAP_MSMF, CAP_ANY>> >>

\* C10: the result is never empty; an override none of whose tokens is
\* recognized gives the platform default (on Linux "bogus,other" gives
\* [CAP_ANY]); an override with a recognized token gives the ids of its
\* recognized tokens only, the default adding nothing.
C10_NeverEmptyFallback ==
    backends_ret # <<>> =>
        LET r == backends_ret[1]
            default == IF platform_system = "Windows"
                       THEN <<CAP_DSHOW, CAP_MSMF, CAP_ANY>>
                       ELSE <<CAP_ANY>>
        IN  /\ r # <<>>
            /\ OverrideSet =>
                  LET recognized == RecognizedIds(OverrideIds)
                  IN  /\ recognized = {} => r = default
                      /\ recognized # {} =>
                            /\ Range(r) = recognized
                            /\ Len(r) = Cardinality(recognized)
            /\ (override = <<ExampleUnknown>> /\ platform_system = "Linux") => r = <<CAP_ANY>>

\* Windows with an override of unknown tokens only: the three defaults.
C10_Witness ==
    /\ platform_system = "Windows"
    /\ override = <<ExampleUnknown>>
    /\ backends_ret = << <<CAP_DSHOW, CAP_MSMF, CAP_ANY>> >>

====
